---- MODULE Spec2Model ----
(***************************************************************************)
(* Model of data-processor/src/processor.py (class DataProcessor): the     *)
(* file pipeline coordinator process_data with its worker pool, and the    *)
(* pure dataframe functions process_chunk, stratified_sample and           *)
(* generate_summary.                                                       *)
(***************************************************************************)
EXTENDS Integers, Sequences, FiniteSets

\* ------------------------------------------------------------------ bounds
MaxFiles == 3
MaxRows == 1
MaxWorkers == 2
MaxDfRows == 2
MaxBatch == 10
MaxChunk == 2
MaxRef == 2

\* --------------------------------------------------------------- constants
\* save_data's if/elif chain, processor.py:133-140
SupportedFormats == {"parquet", "feather", "csv", "hdf5"}
\* a format selector that reaches the else branch of save_data
Formats == SupportedFormats \cup {"xlsx"}

\* the values a main file's i and j columns and the country table's
\* country_code column take
CountryCodes == {1, 2}
\* the values the product table's code column takes
ProductCodes == {"01", "02"}
\* the values of the v column
Values == {0, 5}
\* the (t, i, j) groups of a batch, numbered in the order groupby sorts them
GroupIds == {1, 2}
\* sample_frac as <<numerator, denominator>>: 0.01 is the default
SampleFracs == {<<1, 100>>, <<1, 4>>, <<1, 2>>, <<3, 4>>, <<1, 1>>}

VARIABLES
    input_dir,       \* the directory: [main, country, product, readable]
    file_format,     \* self.file_format
    n_workers,       \* self.n_workers
    main_files,      \* self.main_files, the main files in glob order
    pool_created,    \* the ProcessPoolExecutor exists
    futures,         \* futures[f]: [state, rows] of the task of main_files[f]
    completed,       \* the tasks in the order in which they completed
    i,               \* the number of iterations of the collecting loop done
    processed_data,  \* the list of per-file results, each named by its file
    notified,        \* the file whose result fired each progress/log callback
    progress_calls,  \* the values passed to progress_callback, in order
    log_calls,       \* the messages passed to log_callback, in order
    final_data,      \* the rows of the concatenated dataset, <<file, row>>
    metadata,        \* the record dumped to _metadata.json, or NoMetadata
    error,           \* the exception process_data raised, or "none"
    pc,              \* where process_data is
    call,            \* a direct call of one function: none, called, returned
    df,              \* generate_summary's argument, the merged dataset
    summary,         \* generate_summary's summary_stats values
    batch,           \* stratified_sample's argument: the rows of each group
    use_sample,      \* self.use_sample
    sample_frac,     \* self.sample_frac
    todo,            \* the groups apply has not yet visited
    sampled,         \* the rows stratified_sample returns, with their group
    chunk,           \* process_chunk's argument
    country_codes,   \* self.auxiliary_dfs['country_codes']
    product_codes,   \* self.auxiliary_dfs['product_codes']
    merged           \* the frame process_chunk returns

pipeVars == <<input_dir, file_format, n_workers, main_files, pool_created,
              futures, completed, i, processed_data, notified,
              progress_calls, log_calls, final_data, metadata, error, pc>>

sumVars == <<df, summary>>
sampleVars == <<batch, use_sample, sample_frac, todo, sampled>>
joinVars == <<chunk, country_codes, product_codes, merged>>

fnVars == <<call, sumVars, sampleVars, joinVars>>

vars == <<pipeVars, fnVars>>

NoMetadata == [total_rows_processed |-> -1, total_files_processed |-> -1]

\* ------------------------------------------------------------- operators
RECURSIVE Concat(_, _)
\* pd.concat(processed_data, ignore_index=True): the rows of each result,
\* in list order
Concat(fs, fut) ==
    IF fs = <<>> THEN <<>>
    ELSE [r \in 1..fut[Head(fs)].rows |-> <<Head(fs), r>>]
         \o Concat(Tail(fs), fut)

ProgressRemaining(k, n) == ((n - k) * 100) \div n
\* int((i + 1) / len(self.main_files) * 100); the float product truncates to
\* the exact quotient for every n up to 49
Progress(k, n) == ((k + 1) * 100) \div n

NextFutureCompleted ==
    IF Len(completed) > i THEN completed[i + 1] ELSE 0
\* the future the loop blocks on: enumerate(futures) walks the list in the
\* order of submission
NextFuture == i + 1

NothingProcessedAny == Len(processed_data) < Len(main_files)
\* `if not processed_data`
NothingProcessed == processed_data = <<>>

Running == {f \in DOMAIN futures : futures[f].state = "running"}
Pending == {f \in DOMAIN futures : futures[f].state = "pending"}
Settled(f) == futures[f].state \in {"done", "failed"}

ReturnedOrRaised(f) == Settled(f)
\* future.result() returns the task's result instead of raising its exception
Returned(f) == futures[f].state = "done"

Msg(kind, a, b) == [kind |-> kind, a |-> a, b |-> b]

\* ------------------------------------------------------------------- Init
NoSummary == [total_trade |-> 0, unique_countries |-> 0, unique_products |-> 0,
              top_partners |-> <<>>]

IdleSummary == df = <<>> /\ summary = NoSummary
IdleSample ==
    /\ batch = [g \in GroupIds |-> 0]
    /\ use_sample = TRUE
    /\ sample_frac = <<1, 100>>
    /\ todo = {}
    /\ sampled = {}
IdleJoin ==
    /\ chunk = <<>>
    /\ country_codes = <<>>
    /\ product_codes = <<>>
    /\ merged = <<>>

\* DataProcessor.__init__, before process_data is called
InitPipe(dirs, formats, workers) ==
    /\ input_dir \in dirs
    /\ file_format \in formats
    /\ n_workers \in workers
    /\ main_files = <<>>
    /\ pool_created = FALSE
    /\ futures = <<>>
    /\ completed = <<>>
    /\ i = 0
    /\ processed_data = <<>>
    /\ notified = <<>>
    /\ progress_calls = <<>>
    /\ log_calls = <<>>
    /\ final_data = <<>>
    /\ metadata = NoMetadata
    /\ error = "none"
    /\ pc = "start"

IdlePipe ==
    InitPipe({[main |-> 0, country |-> FALSE, product |-> FALSE,
               readable |-> FALSE]},
             {"parquet"}, {1})

Init ==
    /\ InitPipe([main : 0..MaxFiles, country : BOOLEAN, product : BOOLEAN,
                 readable : BOOLEAN],
                Formats, 1..MaxWorkers)
    /\ call = "none"
    /\ IdleSummary
    /\ IdleSample
    /\ IdleJoin

\* ---------------------------------------------------------------- actions
\* process_data is called with both callbacks, as gui.py calls it.
\* except Exception as e: log_callback(f"Error: {e}"); raise
Raise(e) ==
    /\ error' = e
    /\ log_calls' = Append(log_calls, Msg("error", 0, 0))
    /\ pc' = "raised"

\* analyze_files: the main files are the CSVs whose name holds 'BACI_HS'; the
\* two reference files must both be there (FileNotFoundError) and load
\* (whatever read_csv or astype raises is raised again)
AnalyzeFiles ==
    /\ pc = "start"
    /\ main_files' = [f \in 1..input_dir.main |-> f]
    /\ IF ~input_dir.country \/ ~input_dir.product
       THEN Raise("MissingReferenceData")
       ELSE IF ~input_dir.readable
       THEN Raise("ReferenceLoadError")
       ELSE /\ pc' = "analyzed"
            /\ UNCHANGED <<error, log_calls>>
    /\ UNCHANGED <<fnVars, input_dir, file_format, n_workers, pool_created, futures,
                   completed, i, processed_data, notified, progress_calls,
                   final_data, metadata>>

\* with ProcessPoolExecutor(...) as executor: futures = [executor.submit(...)]
SubmitAll ==
    /\ pc = "analyzed"
    /\ pool_created' = TRUE
    /\ futures' = [f \in 1..Len(main_files) |-> [state |-> "pending", rows |-> 0]]
    /\ pc' = "collect"
    /\ UNCHANGED <<fnVars, input_dir, file_format, n_workers, main_files, completed, i,
                   processed_data, notified, progress_calls, log_calls,
                   final_data, metadata, error>>

\* a free worker of the pool takes the oldest queued task
WorkerStart(f) ==
    /\ pc = "collect"
    /\ f \in Pending
    /\ \A g \in Pending : f <= g
    /\ Cardinality(Running) < n_workers
    /\ futures' = [futures EXCEPT ![f].state = "running"]
    /\ UNCHANGED <<fnVars, input_dir, file_format, n_workers, main_files, pool_created,
                   completed, i, processed_data, notified, progress_calls,
                   log_calls, final_data, metadata, error, pc>>

\* process_file returns the file's sampled rows, or raises after r rows of
\* partial work
WorkerFinish(f, ok, r) ==
    /\ pc = "collect"
    /\ f \in Running
    /\ futures' = [futures EXCEPT
                     ![f] = [state |-> IF ok THEN "done" ELSE "failed", rows |-> r]]
    /\ completed' = Append(completed, f)
    /\ UNCHANGED <<fnVars, input_dir, file_format, n_workers, main_files, pool_created,
                   i, processed_data, notified, progress_calls, log_calls,
                   final_data, metadata, error, pc>>

\* one iteration of `for i, future in enumerate(futures)`: future.result()
\* blocks until the task has settled
Collect ==
    /\ pc = "collect"
    /\ i < Len(main_files)
    /\ LET f == NextFuture
           n == Len(main_files)
       IN  /\ f \in DOMAIN futures
           /\ Settled(f)
           /\ IF Returned(f)
              THEN /\ processed_data' = Append(processed_data, f)
                   /\ progress_calls' = Append(progress_calls, Progress(i, n))
                   /\ log_calls' = Append(log_calls, Msg("file", i + 1, n))
                   /\ notified' = Append(notified, f)
              ELSE UNCHANGED <<processed_data, progress_calls, log_calls, notified>>
    /\ i' = i + 1
    /\ UNCHANGED <<fnVars, input_dir, file_format, n_workers, main_files, pool_created,
                   futures, completed, final_data, metadata, error, pc>>

\* after the loop: `if not processed_data: raise ValueError("No data was
\* successfully processed")`
RaiseNoData ==
    /\ pc = "collect"
    /\ i = Len(main_files)
    /\ NothingProcessed
    /\ Raise("NoDataProcessed")
    /\ UNCHANGED <<fnVars, input_dir, file_format, n_workers, main_files, pool_created,
                   futures, completed, i, processed_data, notified,
                   progress_calls, final_data, metadata>>

\* pd.concat, generate_summary, then save_data falls to its else branch
SaveUnsupported ==
    /\ pc = "collect"
    /\ i = Len(main_files)
    /\ ~NothingProcessed
    /\ file_format \notin SupportedFormats
    /\ final_data' = Concat(processed_data, futures)
    /\ Raise("UnsupportedOutputFormat")
    /\ UNCHANGED <<fnVars, input_dir, file_format, n_workers, main_files, pool_created,
                   futures, completed, i, processed_data, notified,
                   progress_calls, metadata>>

\* pd.concat, generate_summary, save_data, the summary and the metadata
SaveAndReport ==
    /\ pc = "collect"
    /\ i = Len(main_files)
    /\ ~NothingProcessed
    /\ file_format \in SupportedFormats
    /\ final_data' = Concat(processed_data, futures)
    /\ metadata' = [total_rows_processed |-> Len(final_data'),
                    total_files_processed |-> Len(main_files)]
    /\ log_calls' = log_calls \o <<Msg("saved", 0, 0), Msg("summary", 0, 0),
                                   Msg("metadata", 0, 0)>>
    /\ pc' = "finished"
    /\ UNCHANGED <<fnVars, input_dir, file_format, n_workers, main_files, pool_created,
                   futures, completed, i, processed_data, notified,
                   progress_calls, error>>

Next ==
    \/ AnalyzeFiles
    \/ SubmitAll
    \/ \E f \in 1..MaxFiles : WorkerStart(f)
    \/ \E f \in 1..MaxFiles, ok \in BOOLEAN, r \in 0..MaxRows : WorkerFinish(f, ok, r)
    \/ Collect
    \/ RaiseNoData
    \/ SaveUnsupported
    \/ SaveAndReport

Spec == Init /\ [][Next]_vars

\* ------------------------------------------------------- the coordinator
Terminated == pc \in {"finished", "raised"}
Succeeded == {f \in DOMAIN futures : futures[f].state = "done"}
Failed == {f \in DOMAIN futures : futures[f].state = "failed"}
RowsOf(fs) == {<<f, r>> : f \in fs, r \in 1..MaxRows} \cap
              {x \in (1..MaxFiles) \X (1..MaxRows) :
                   x[1] \in DOMAIN futures /\ x[2] <= futures[x[1]].rows}
Position(seq, x) == CHOOSE p \in DOMAIN seq : seq[p] = x
InSeq(seq, x) == \E p \in DOMAIN seq : seq[p] = x
CompletedBefore(b, a) ==
    /\ InSeq(completed, a)
    /\ InSeq(completed, b)
    /\ Position(completed, b) < Position(completed, a)

\* C1: when a run ends in which at least one file succeeded and others
\* raised, the failing files raise nothing out of process_data (with a
\* supported format the run ends normally), the final dataset holds exactly
\* the rows of the successful files, each once, file by file in list order,
\* and total_rows_processed is the sum of the successful files' row counts.
C1_PartialFailure ==
    (Terminated /\ pool_created /\ Succeeded # {}) =>
        /\ error \in {"none", "UnsupportedOutputFormat"}
        /\ file_format \in SupportedFormats => (pc = "finished" /\ error = "none")
        /\ {final_data[x] : x \in DOMAIN final_data} = RowsOf(Succeeded)
        /\ Len(final_data) = Cardinality(RowsOf(Succeeded))
        /\ \A x, y \in DOMAIN final_data :
              x < y => \/ final_data[x][1] < final_data[y][1]
                       \/ /\ final_data[x][1] = final_data[y][1]
                          /\ final_data[x][2] < final_data[y][2]
        /\ pc = "finished" =>
              metadata.total_rows_processed = Cardinality(RowsOf(Succeeded))

C1_Witness ==
    /\ pc = "finished"
    /\ \E f \in Failed : futures[f].rows > 0
    /\ Cardinality(Succeeded) >= 2
    /\ \A f \in Succeeded : futures[f].rows > 0

\* C2: the metadata's total_files_processed is the number of files whose
\* processing succeeded.
C2_FilesProcessedCountsSuccesses ==
    pc = "finished" => metadata.total_files_processed = Cardinality(Succeeded)

\* C3: NoDataProcessed is raised if and only if every submitted file failed,
\* and only once every future has been collected: never while a task is
\* unattempted or running, never when a file succeeded.
C3_NoDataIffAllFailed ==
    /\ error = "NoDataProcessed" =>
          /\ pool_created
          /\ Len(futures) = Len(main_files)
          /\ i = Len(main_files)
          /\ \A f \in DOMAIN futures : futures[f].state = "failed"
    /\ (Terminated /\ pool_created
           /\ \A f \in DOMAIN futures : futures[f].state = "failed")
          => error = "NoDataProcessed"

C3_Witness ==
    /\ error = "NoDataProcessed"
    /\ Len(main_files) >= 2
    /\ completed # [f \in 1..Len(main_files) |-> f]

\* C4: with both reference files and no main file the run fails with
\* NoMainFilesFound (an error other than NoDataProcessed) in analyze_files,
\* before the pool exists.
C4_NoMainFilesFound ==
    (Terminated /\ input_dir.country /\ input_dir.product /\ input_dir.readable
         /\ input_dir.main = 0)
        => /\ pc = "raised"
           /\ error = "NoMainFilesFound"
           /\ ~pool_created

\* C5 as stated: callbacks are delivered in completion order, so when b's
\* task completed before a's and a's callbacks have fired, b's fired before.
C5_CompletionOrder ==
    \A a, b \in DOMAIN futures :
        (InSeq(notified, a) /\ b \in Succeeded /\ CompletedBefore(b, a))
            => /\ InSeq(notified, b)
               /\ Position(notified, b) < Position(notified, a)

\* C5 amended: callbacks are delivered in submission order whatever the
\* completion order: a file's callbacks fire after those of every file
\* submitted before it, and only once all of those have settled.
C5_SubmissionOrder ==
    /\ \A x, y \in DOMAIN notified : x < y => notified[x] < notified[y]
    /\ \A x \in DOMAIN notified :
          /\ \A b \in 1..notified[x] : Settled(b)
          /\ log_calls[x] = Msg("file", notified[x], Len(main_files))

C5_Witness ==
    /\ notified = <<1, 2>>
    /\ CompletedBefore(2, 1)

\* C6: every value passed to progress_callback is an integer in 0..100 and
\* the values passed never decrease.
C6_ProgressMonotone ==
    /\ \A x \in DOMAIN progress_calls : progress_calls[x] \in 0..100
    /\ \A x, y \in DOMAIN progress_calls :
          x < y => progress_calls[x] <= progress_calls[y]

C6_Witness ==
    /\ Len(progress_calls) >= 2
    /\ Failed # {}
    /\ \E a, b \in DOMAIN futures : a < b /\ CompletedBefore(b, a)

\* C7: a run that ends with UnsupportedOutputFormat submitted no task and
\* fired no progress callback.
C7_FormatCheckedFirst ==
    error = "UnsupportedOutputFormat" =>
        /\ futures = <<>>
        /\ progress_calls = <<>>

\* ------------------------------------------------------ generate_summary
RECURSIVE SumV(_)
\* df['v'].sum()
SumV(rows) == IF rows = <<>> THEN 0 ELSE Head(rows).v + SumV(Tail(rows))

\* df[col].nunique() for the columns i, j and k
NUniqueI(rows) == Cardinality({rows[x].i : x \in DOMAIN rows})
NUniqueJ(rows) == Cardinality({rows[x].j : x \in DOMAIN rows})
NUniqueK(rows) == Cardinality({rows[x].k : x \in DOMAIN rows})

\* unique_countries = df['i'].nunique() + df['j'].nunique()
UniqueCountries(rows) == NUniqueI(rows) + NUniqueJ(rows)

DfRows == [i : CountryCodes, j : CountryCodes, k : ProductCodes, v : Values]

SeqsUpTo(S, n) == UNION {[1..m -> S] : m \in 0..n}

InitSummary ==
    /\ IdlePipe
    /\ IdleSample
    /\ IdleJoin
    /\ call = "called"
    /\ df \in SeqsUpTo(DfRows, MaxDfRows)
    /\ summary = NoSummary

\* nlargest(10)
TopN == 10

\* the exporter_name of a row: the name the country table gives its code i,
\* names being numbered in their sorted order
ExporterNames(rows) == {rows[x].i : x \in DOMAIN rows}

RECURSIVE TradeOf(_, _)
\* df.groupby('exporter_name')['v'].sum() for the group n
TradeOf(rows, n) ==
    IF rows = <<>> THEN 0
    ELSE (IF Head(rows).i = n THEN Head(rows).v ELSE 0) + TradeOf(Tail(rows), n)

FirstRow(rows, n) == CHOOSE x \in DOMAIN rows :
    rows[x].i = n /\ \A y \in DOMAIN rows : rows[y].i = n => x <= y

FirstSeenFirst(rows, a, b) == FirstRow(rows, a) < FirstRow(rows, b)
\* groupby sorts the group keys: group a is listed before group b
GroupFirst(rows, a, b) == a < b

Partner(rows, n) == [Country |-> n, Total |-> TradeOf(rows, n)]

\* nlargest on more than n entries: the n smallest of the negated values by a
\* stable (mergesort) argsort, so equal sums stay in the order of the groups
NLargestStable(rows) ==
    LET names == ExporterNames(rows)
        rank(n) == Cardinality({m \in names :
                       \/ TradeOf(rows, m) > TradeOf(rows, n)
                       \/ /\ TradeOf(rows, m) = TradeOf(rows, n)
                          /\ GroupFirst(rows, m, n)})
    IN  [p \in 1..TopN |-> Partner(rows, CHOOSE n \in names : rank(n) = p - 1)]

RECURSIVE SortedDescending(_, _)
\* sort_values(ascending=False) with the default quicksort, which is not
\* stable: every order of the groups with sums descending
SortedDescending(rows, names) ==
    IF names = {} THEN {<<>>}
    ELSE UNION {
             {<<Partner(rows, n)>> \o t : t \in SortedDescending(rows, names \ {n})} :
             n \in {m \in names : \A o \in names : TradeOf(rows, m) >= TradeOf(rows, o)}}

\* Series.nlargest(10): with at most 10 groups it is sort_values().head(10)
TopPartners(rows) ==
    IF TopN >= Cardinality(ExporterNames(rows))
    THEN SortedDescending(rows, ExporterNames(rows))
    ELSE {NLargestStable(rows)}

\* the top_partners and summary_stats blocks of generate_summary; the
\* top_products and time_series columns are built from k and t alone
GenerateSummary ==
    /\ call = "called"
    /\ \E tp \in TopPartners(df) :
          summary' = [total_trade |-> SumV(df),
                      unique_countries |-> UniqueCountries(df),
                      unique_products |-> NUniqueK(df),
                      top_partners |-> tp]
    /\ call' = "returned"
    /\ UNCHANGED <<pipeVars, df, sampleVars, joinVars>>

NextSummary == GenerateSummary

SpecSummary == InitSummary /\ [][NextSummary]_vars

\* C8: 'Unique Countries' is the size of the union of the exporter codes and
\* the importer codes of the merged dataset.
C8_UniqueCountriesIsUnion ==
    call = "returned" =>
        summary.unique_countries =
            Cardinality({df[x].i : x \in DOMAIN df} \cup {df[x].j : x \in DOMAIN df})

\* exporters 3, 4, ... with sums 20, 25, ..., one row each
Fillers(n) == [p \in 1..n |-> [i |-> 2 + p, j |-> 1, k |-> "01", v |-> 5 * (p + 3)]]

TopRows == [i : CountryCodes, j : {1}, k : {"01"}, v : Values]

\* merged datasets of 9 to 12 exporters: some rows of exporters 1 and 2
\* before and after the rows of 9 or 10 other exporters
InitTop ==
    /\ IdlePipe
    /\ IdleSample
    /\ IdleJoin
    /\ call = "called"
    /\ \E pre, post \in SeqsUpTo(TopRows, MaxDfRows), nf \in {TopN - 1, TopN} :
          /\ Len(pre) + Len(post) <= MaxDfRows
          /\ df = pre \o Fillers(nf) \o post
    /\ summary = NoSummary

NextTop == GenerateSummary

SpecTop == InitTop /\ [][NextTop]_vars

TopTable == summary.top_partners
InTop(n) == \E p \in DOMAIN TopTable : TopTable[p].Country = n
PlaceOf(n) == CHOOSE p \in DOMAIN TopTable : TopTable[p].Country = n
\* the sum of v over the rows of exporter n
TotalOf(n) ==
    LET part[x \in 0..Len(df)] ==
            IF x = 0 THEN 0
            ELSE part[x - 1] + (IF df[x].i = n THEN df[x].v ELSE 0)
    IN  part[Len(df)]
TopIsLargest ==
    /\ Len(TopTable) = IF Cardinality(ExporterNames(df)) < 10
                       THEN Cardinality(ExporterNames(df)) ELSE 10
    /\ \A p \in DOMAIN TopTable :
          /\ TopTable[p].Country \in ExporterNames(df)
          /\ TopTable[p].Total = TotalOf(TopTable[p].Country)
    /\ \A p, q \in DOMAIN TopTable :
          /\ p < q => TopTable[p].Total >= TopTable[q].Total
          /\ TopTable[p].Country = TopTable[q].Country => p = q
    /\ \A a, b \in ExporterNames(df) :
          (InTop(a) /\ ~InTop(b)) => TotalOf(a) >= TotalOf(b)

\* C12 as stated: the table is the (at most 10) exporters of largest summed
\* v, descending, and of two exporters with equal sums the one whose first
\* row comes earlier in the dataset is ranked first and kept at the cut-off.
C12_TiesByFirstRow ==
    call = "returned" =>
        /\ TopIsLargest
        /\ \A a, b \in ExporterNames(df) :
              (TotalOf(a) = TotalOf(b) /\ FirstRow(df, a) < FirstRow(df, b)
                  /\ InTop(b))
                 => (InTop(a) /\ PlaceOf(a) < PlaceOf(b))

\* C12 amended: the table is the (at most 10) exporters of largest summed v,
\* descending; when there are more than 10 exporters, of two with equal sums
\* the one whose name sorts first is ranked first and kept at the cut-off,
\* wherever their rows are in the dataset.
C12_TiesByName ==
    call = "returned" =>
        /\ TopIsLargest
        /\ Cardinality(ExporterNames(df)) > 10 =>
              \A a, b \in ExporterNames(df) :
                  (TotalOf(a) = TotalOf(b) /\ a < b /\ InTop(b))
                     => (InTop(a) /\ PlaceOf(a) < PlaceOf(b))

C12_Witness ==
    /\ call = "returned"
    /\ Cardinality(ExporterNames(df)) > 10
    /\ TotalOf(1) = TotalOf(2)
    /\ FirstRow(df, 2) < FirstRow(df, 1)
    /\ InTop(1)
    /\ ~InTop(2)

\* ----------------------------------------------------- stratified_sample
\* the rows of group g of the batch, each named by its group and its
\* position in the group
GroupRows(g) == {<<g, n>> : n \in 1..batch[g]}
AllRows == UNION {GroupRows(g) : g \in GroupIds}

\* round(): Python rounds a tie to the even neighbour
RoundHalfEven(a, b) ==
    LET q == a \div b
        r == a % b
    IN  IF 2 * r < b THEN q
        ELSE IF 2 * r > b THEN q + 1
        ELSE IF q % 2 = 0 THEN q ELSE q + 1

SampleSizeFloor(n) == (sample_frac[1] * n) \div sample_frac[2]
\* DataFrame.sample(frac=f) draws round(f * len(x)) rows
SampleSize(n) == RoundHalfEven(sample_frac[1] * n, sample_frac[2])

WholeFrame(g) == AllRows
\* the frame x the lambda samples from is the group's own rows
SampleFrame(g) == GroupRows(g)

InitSample ==
    /\ IdlePipe
    /\ IdleSummary
    /\ IdleJoin
    /\ call = "called"
    /\ batch \in {b \in [GroupIds -> 0..MaxBatch] : b[1] + b[2] <= MaxBatch}
    /\ use_sample \in BOOLEAN
    /\ sample_frac \in SampleFracs
    /\ todo = {g \in GroupIds : batch[g] > 0}
    /\ sampled = {}

\* use_sample is off: `return df`
SamplePassThrough ==
    /\ call = "called"
    /\ ~use_sample
    /\ sampled' = {[from |-> r[1], row |-> r] : r \in AllRows}
    /\ todo' = {}
    /\ call' = "returned"
    /\ UNCHANGED <<pipeVars, sumVars, joinVars, batch, use_sample, sample_frac>>

\* groupby(['t', 'i', 'j']).apply on a frame without rows calls nothing
SampleNoGroups ==
    /\ call = "called"
    /\ use_sample
    /\ todo = {}
    /\ call' = "returned"
    /\ UNCHANGED <<pipeVars, sumVars, joinVars, sampleVars>>

\* apply calls the lambda on the next group: x.sample(frac=self.sample_frac)
\* draws without replacement, uniformly, so any subset of the size may come
SampleGroup ==
    /\ call = "called"
    /\ use_sample
    /\ todo # {}
    /\ LET g == CHOOSE h \in todo : \A h2 \in todo : h <= h2
       IN  /\ \E S \in SUBSET SampleFrame(g) :
                 /\ Cardinality(S) = SampleSize(Cardinality(SampleFrame(g)))
                 /\ sampled' = sampled \cup {[from |-> g, row |-> r] : r \in S}
           /\ todo' = todo \ {g}
    /\ call' = IF todo' = {} THEN "returned" ELSE "called"
    /\ UNCHANGED <<pipeVars, sumVars, joinVars, batch, use_sample, sample_frac>>

NextSample ==
    \/ SamplePassThrough
    \/ SampleNoGroups
    \/ SampleGroup

SpecSample == InitSample /\ [][NextSample]_vars

DrawnFrom(g) == {s \in sampled : s.from = g}

\* C9: with sampling on, every group contributes exactly round(f * size) of
\* its own rows (the integer nearest to f * size, the even one on a tie), each
\* at most once, and nothing else is returned; 10 rows at f = 0.5 give 5.
C9_SampleSizePerGroup ==
    (call = "returned" /\ use_sample) =>
        /\ \A s \in sampled : s.row \in GroupRows(s.from)
        /\ \A g \in GroupIds :
              LET c == Cardinality({s.row : s \in DrawnFrom(g)})
                  d == 2 * (sample_frac[2] * c - sample_frac[1] * batch[g])
              IN  /\ c = Cardinality(DrawnFrom(g))
                  /\ -sample_frac[2] <= d /\ d <= sample_frac[2]
                  /\ (d = sample_frac[2] \/ d = -sample_frac[2]) => c % 2 = 0
                  /\ (batch[g] = 10 /\ sample_frac = <<1, 2>>) => c = 5

C9_Witness ==
    /\ call = "returned"
    /\ use_sample
    /\ sample_frac = <<1, 2>>
    /\ batch[1] = 10
    /\ Cardinality(DrawnFrom(1)) = 5


\* ---------------------------------------------------------- process_chunk
\* a nullable cell is <<>> (NaN) or <<value>>
Null == <<>>

RECURSIVE Flatten(_)
\* the frames of the left rows, one under the other
Flatten(ss) == IF ss = <<>> THEN <<>> ELSE Head(ss) \o Flatten(Tail(ss))

NoMatchInner(padded) == <<>>
\* how='left': a left row without a match is kept, its right columns NaN
NoMatch(padded) == <<padded>>

\* pd.merge(..., how='left') for one left row: one output row per matching
\* right row, in the right table's order, or the padded left row
LeftRows(joined, padded) == IF joined = <<>> THEN NoMatch(padded) ELSE joined

\* chunk['k'].astype(str): a string stays, NaN becomes the string 'nan'
AsStr(cell) == IF cell = Null THEN <<"nan">> ELSE cell

\* the merge on i, with country_name renamed exporter_name
MergeExporter(rows, countries) ==
    Flatten([x \in DOMAIN rows |->
        LET l == rows[x]
            m == SelectSeq(countries, LAMBDA r : l.i = r.country_code)
        IN  LeftRows(
                [y \in DOMAIN m |->
                    [i |-> l.i, j |-> l.j, k |-> l.k,
                     country_code |-> <<m[y].country_code>>,
                     exporter_name |-> <<m[y].country_name>>]],
                [i |-> l.i, j |-> l.j, k |-> l.k,
                 country_code |-> Null, exporter_name |-> Null])])

\* the merge on j, suffixes=('', '_importer'), country_name renamed
\* importer_name
MergeImporter(rows, countries) ==
    Flatten([x \in DOMAIN rows |->
        LET l == rows[x]
            m == SelectSeq(countries, LAMBDA r : l.j = r.country_code)
        IN  LeftRows(
                [y \in DOMAIN m |->
                    [i |-> l.i, j |-> l.j, k |-> l.k,
                     country_code |-> l.country_code,
                     exporter_name |-> l.exporter_name,
                     country_code_importer |-> <<m[y].country_code>>,
                     importer_name |-> <<m[y].country_name>>]],
                [i |-> l.i, j |-> l.j, k |-> l.k,
                 country_code |-> l.country_code,
                 exporter_name |-> l.exporter_name,
                 country_code_importer |-> Null, importer_name |-> Null])])

\* k as string
CoerceK(rows) ==
    [x \in DOMAIN rows |-> [rows[x] EXCEPT !.k = AsStr(rows[x].k)]]

\* the merge on k against the product table
MergeProduct(rows, products) ==
    Flatten([x \in DOMAIN rows |->
        LET l == rows[x]
            m == SelectSeq(products, LAMBDA r : l.k = <<r.code>>)
        IN  LeftRows(
                [y \in DOMAIN m |->
                    [i |-> l.i, j |-> l.j, k |-> l.k,
                     country_code |-> l.country_code,
                     exporter_name |-> l.exporter_name,
                     country_code_importer |-> l.country_code_importer,
                     importer_name |-> l.importer_name,
                     code |-> <<m[y].code>>,
                     description |-> <<m[y].description>>]],
                [i |-> l.i, j |-> l.j, k |-> l.k,
                 country_code |-> l.country_code,
                 exporter_name |-> l.exporter_name,
                 country_code_importer |-> l.country_code_importer,
                 importer_name |-> l.importer_name,
                 code |-> Null, description |-> Null])])

ChunkRows == [i : CountryCodes, j : CountryCodes, k : {<<"01">>, Null}]
\* a reference table: its keys row by row; a row's name or description is
\* its own, here the row's position
CountryTable(keys) ==
    [p \in DOMAIN keys |-> [country_code |-> keys[p], country_name |-> p]]
ProductTable(keys) ==
    [p \in DOMAIN keys |-> [code |-> keys[p], description |-> p]]

InitJoin ==
    /\ IdlePipe
    /\ IdleSummary
    /\ IdleSample
    /\ call = "called"
    /\ chunk \in SeqsUpTo(ChunkRows, MaxChunk)
    /\ country_codes \in {CountryTable(ks) : ks \in SeqsUpTo(CountryCodes, MaxRef)}
    /\ product_codes \in {ProductTable(ks) : ks \in SeqsUpTo(ProductCodes, MaxRef)}
    /\ merged = <<>>

ProcessChunk ==
    /\ call = "called"
    /\ merged' = MergeProduct(
                     CoerceK(MergeImporter(MergeExporter(chunk, country_codes),
                                           country_codes)),
                     product_codes)
    /\ call' = "returned"
    /\ UNCHANGED <<pipeVars, sumVars, sampleVars, chunk, country_codes,
                   product_codes>>

NextJoin == ProcessChunk

SpecJoin == InitJoin /\ [][NextJoin]_vars

UniqueKeys ==
    /\ \A p, q \in DOMAIN country_codes :
          country_codes[p].country_code = country_codes[q].country_code => p = q
    /\ \A p, q \in DOMAIN product_codes :
          product_codes[p].code = product_codes[q].code => p = q

NamesOf(c) ==
    {<<country_codes[p].country_name>> :
        p \in {q \in DOMAIN country_codes : country_codes[q].country_code = c}}
DescriptionsOf(k) ==
    {<<product_codes[p].description>> :
        p \in {q \in DOMAIN product_codes : <<product_codes[q].code>> = k}}

InitDefaultRun ==
    /\ InitPipe({[main |-> 1, country |-> TRUE, product |-> TRUE,
                  readable |-> TRUE]},
                {"parquet"}, 1..MaxWorkers)
    /\ IdleSummary
    /\ IdleJoin
    /\ call = "called"
    /\ batch \in {b \in [GroupIds -> 0..MaxBatch] :
                     b[1] + b[2] >= 1 /\ b[1] + b[2] <= MaxBatch}
    /\ use_sample = TRUE
    /\ sample_frac = <<1, 100>>
    /\ todo = {g \in GroupIds : batch[g] > 0}
    /\ sampled = {}

\* process_file in the worker: sampled_chunk = self.stratified_sample(...)
WorkerSample ==
    /\ 1 \in Running
    /\ SampleGroup

\* process_file returns pd.concat(processed_chunks): the sampled rows
WorkerReturn ==
    /\ call = "returned"
    /\ WorkerFinish(1, TRUE, Cardinality(sampled))

\* process_file raises before the chunk is sampled
WorkerRaise ==
    /\ call = "called"
    /\ todo = {g \in GroupIds : batch[g] > 0}
    /\ WorkerFinish(1, FALSE, 0)

NextDefaultRun ==
    \/ AnalyzeFiles
    \/ SubmitAll
    \/ WorkerStart(1)
    \/ WorkerSample
    \/ WorkerReturn
    \/ WorkerRaise
    \/ Collect
    \/ RaiseNoData
    \/ SaveAndReport

SpecDefaultRun == InitDefaultRun /\ [][NextDefaultRun]_vars

\* C11: a run with the default configuration whose main file holds at least
\* one row and is processed without error ends normally with an output
\* dataset of more than zero rows.
C11_DefaultRunHasRows ==
    (Terminated /\ Succeeded # {}) =>
        /\ pc = "finished"
        /\ Len(final_data) > 0
        /\ metadata.total_rows_processed > 0

====
